---- MODULE Spec2Model ----
(***************************************************************************)
(* Contador de Larvas de Chorito (src/app.py, src/config.py).              *)
(*                                                                         *)
(* The page is a Streamlit script: every user interaction reruns main()    *)
(* from top to bottom for the session of that user.  What survives a rerun *)
(* is the session's st.session_state and the process-wide cache of         *)
(* load_model (st.cache_resource).  One step of the model is one complete  *)
(* rerun of main() in one session.                                         *)
(*                                                                         *)
(* Text (file names, the banner, the download name) is a sequence of       *)
(* one-character strings.  A confidence is kept in hundredths (0.25 = 25). *)
(***************************************************************************)
EXTENDS Integers, Sequences, FiniteSets, TLC

\* ------------------------------------------------------------------ bounds
NumSessions == 2
MaxCtorCalls == 2

Sessions == 1..NumSessions

\* --------------------------------------------------------------- config.py
DEFAULT_MODEL_PATH == "models/best yolov11S.pt"
DEFAULT_CONFIDENCE == 25
MIN_CONFIDENCE == 10
MAX_CONFIDENCE == 90
SLIDER_STEP == 5
MAX_DET == 10000

\* Python's None where a model is expected; a loaded model is its instance
\* number (the n-th object the constructor built), which is >= 1.
NoModel == 0

\* Python's None where an uploaded file is expected.
NoFile == [name |-> <<>>, content |-> "None"]

\* The keys main() keeps in st.session_state.
PREVIOUS_FILE_NAME == "previous_file_name"
RESULT_IMAGE == "result_image"
COUNT == "count"

\* ------------------------------------------------------------------ inputs
\* Every position of the confidence slider.
SliderValues ==
    {c \in MIN_CONFIDENCE..MAX_CONFIDENCE : (c - MIN_CONFIDENCE) % SLIDER_STEP = 0}

\* The slider positions the reruns are explored with.
ConfidenceInputs == {c \in SliderValues : c \in {DEFAULT_CONFIDENCE, MAX_CONFIDENCE}}

\* The files on the user's disk (the uploader accepts jpg, jpeg and png; each
\* decodes to a picture): a.jpg exists in two versions with different
\* pictures.  Two files are the same file when name and picture agree.
A_JPG == <<"a", ".", "j", "p", "g">>
B_V2_PNG == <<"b", ".", "v", "2", ".", "p", "n", "g">>

Files ==
    { [name |-> A_JPG, content |-> "img1"],
      [name |-> A_JPG, content |-> "img2"],
      [name |-> B_V2_PNG, content |-> "img2"] }

\* What the pretrained network sees in each picture: the score of every
\* candidate box, in hundredths, best first.
Candidates(image) ==
    IF image = "img1" THEN <<95, 60, 30>>
    ELSE <<97, 96, 95, 94, 93, 92, 91, 90, 90, 90, 50, 40>>

\* ---------------------------------------------------------------- helpers
\* del st.session_state[key] for every key of keys that is present.
DeleteKeys(state, keys) == [k \in DOMAIN state \ keys |-> state[k]]

\* st.session_state[key] = value
SetKey(state, key, value) ==
    [k \in DOMAIN state \cup {key} |-> IF k = key THEN value ELSE state[k]]

\* A dictionary with no key.
EmptyDict == [k \in {} |-> 0]

Digit(d) == <<"0", "1", "2", "3", "4", "5", "6", "7", "8", "9">>[d + 1]

\* str(n) for n >= 0, as an f-string formats an int.
RECURSIVE IntToStr(_)
IntToStr(n) == IF n < 10 THEN <<Digit(n)>> ELSE IntToStr(n \div 10) \o <<Digit(n % 10)>>

\* pathlib.Path(name).stem of a name without directory part: the name up to
\* its last dot, unless that dot is the first or the last character.
Stem(name) ==
    LET dots == {i \in 1..Len(name) : name[i] = "."}
        last == IF dots = {} THEN 0 ELSE CHOOSE i \in dots : \A j \in dots : j <= i
    IN  IF 1 < last /\ last < Len(name) THEN SubSeq(name, 1, last - 1) ELSE name

\* ---------------------------------------------------------------- the model
\* YOLO(str(model_path)): the constructor either raises (ctor = "raise": the
\* file is missing or unreadable) or builds a model, which is known by the
\* number of the constructor call that built it.  Constructor calls are
\* counted up to MaxCtorCalls.
YOLO(ctor, calls) ==
    LET n == IF calls < MaxCtorCalls THEN calls + 1 ELSE calls
    IN  [raised |-> ctor = "raise", instance |-> n, calls |-> n]

\* load_model under st.cache_resource without the cache: every call builds.
load_model_uncached(entries, model_path, ctor, calls) ==
    LET built == YOLO(ctor, calls)
        value == IF built.raised THEN NoModel ELSE built.instance
    IN  [value |-> value,
         entries |-> SetKey(entries, model_path, value),
         calls |-> built.calls,
         error |-> built.raised]

\* load_model under st.cache_resource: the body runs when the cache holds no
\* entry for model_path, and its return value, None included, becomes the
\* entry; any later call returns the entry and replays the st.error the body
\* showed.
load_model(entries, model_path, ctor, calls) ==
    IF model_path \in DOMAIN entries
    THEN [value |-> entries[model_path],
          entries |-> entries,
          calls |-> calls,
          error |-> entries[model_path] = NoModel]
    ELSE LET built == YOLO(ctor, calls)
             value == IF built.raised THEN NoModel ELSE built.instance
         IN  [value |-> value,
              entries |-> SetKey(entries, model_path, value),
              calls |-> built.calls,
              error |-> built.raised]

\* model(image, conf=confidence, max_det=MAX_DET)[0].boxes: the candidates
\* that score at least conf, best first, at most max_det of them.
Predict(image, conf, max_det) ==
    LET kept == SelectSeq(Candidates(image), LAMBDA score : score >= conf)
    IN  IF Len(kept) > max_det THEN SubSeq(kept, 1, max_det) ELSE kept

TOTAL == <<"T", "O", "T", "A", "L", ":", " ">>

\* process_image with the returned count one short of the boxes.
process_image_miscount(image, model, confidence) ==
    LET boxes == Predict(image, confidence, MAX_DET)
        count == IF Len(boxes) > 0 THEN Len(boxes) - 1 ELSE 1
    IN  [result_image |-> [source |-> image, conf |-> confidence,
                           drawn |-> Len(boxes), banner |-> TOTAL \o IntToStr(count)],
         count |-> count,
         call |-> [image |-> image, conf |-> confidence, model |-> model,
                   boxes |-> Len(boxes)]]

\* process_image with the banner written from every candidate box, before the
\* confidence threshold.
process_image_banner_unfiltered(image, model, confidence) ==
    LET boxes == Predict(image, confidence, MAX_DET)
        count == Len(boxes)
        text == TOTAL \o IntToStr(Len(Candidates(image)))
    IN  [result_image |-> [source |-> image, conf |-> confidence,
                           drawn |-> Len(boxes), banner |-> text],
         count |-> count,
         call |-> [image |-> image, conf |-> confidence, model |-> model,
                   boxes |-> Len(boxes)]]

\* process_image: one detection call; the picture returned carries the boxes
\* drawn by plot() and the banner text, the count is len(results[0].boxes).
\* "call" records the detection call made.
process_image(image, model, confidence) ==
    LET boxes == Predict(image, confidence, MAX_DET)
        count == Len(boxes)
        text == TOTAL \o IntToStr(count)
    IN  [result_image |-> [source |-> image, conf |-> confidence,
                           drawn |-> Len(boxes), banner |-> text],
         count |-> count,
         call |-> [image |-> image, conf |-> confidence, model |-> model,
                   boxes |-> Len(boxes)]]

\* ------------------------------------------------------------------- main
\* main without the stop.
StopsNever(model) == FALSE

\* "if model is None: ... st.stop()".
Stops(model) == model = NoModel

\* The block with 'previous_file_name' left out of the keys cleared on removal.
InvalidateKeepsNameOnRemoval(state, uploaded_file) ==
    IF uploaded_file # NoFile
    THEN LET current_file_name == uploaded_file.name
             kept == IF /\ PREVIOUS_FILE_NAME \in DOMAIN state
                        /\ state[PREVIOUS_FILE_NAME] # current_file_name
                     THEN DeleteKeys(state, {RESULT_IMAGE, COUNT})
                     ELSE state
         IN  SetKey(kept, PREVIOUS_FILE_NAME, current_file_name)
    ELSE DeleteKeys(state, {RESULT_IMAGE, COUNT})

\* The block with 'count' left out of the keys cleared on a new name.
InvalidateKeepsCountOnChange(state, uploaded_file) ==
    IF uploaded_file # NoFile
    THEN LET current_file_name == uploaded_file.name
             kept == IF /\ PREVIOUS_FILE_NAME \in DOMAIN state
                        /\ state[PREVIOUS_FILE_NAME] # current_file_name
                     THEN DeleteKeys(state, {RESULT_IMAGE})
                     ELSE state
         IN  SetKey(kept, PREVIOUS_FILE_NAME, current_file_name)
    ELSE DeleteKeys(state, {PREVIOUS_FILE_NAME, RESULT_IMAGE, COUNT})

\* The block without the comparison of the names: any rerun with a file
\* clears the result.
InvalidateOnEveryRerun(state, uploaded_file) ==
    IF uploaded_file # NoFile
    THEN LET current_file_name == uploaded_file.name
             kept == IF PREVIOUS_FILE_NAME \in DOMAIN state
                     THEN DeleteKeys(state, {RESULT_IMAGE, COUNT})
                     ELSE state
         IN  SetKey(kept, PREVIOUS_FILE_NAME, current_file_name)
    ELSE DeleteKeys(state, {PREVIOUS_FILE_NAME, RESULT_IMAGE, COUNT})

\* The block "Verificar si la imagen cambio o se elimino": the session state
\* after it.
InvalidateOnFileChange(state, uploaded_file) ==
    IF uploaded_file # NoFile
    THEN LET current_file_name == uploaded_file.name
             kept == IF /\ PREVIOUS_FILE_NAME \in DOMAIN state
                        /\ state[PREVIOUS_FILE_NAME] # current_file_name
                     THEN DeleteKeys(state, {RESULT_IMAGE, COUNT})
                     ELSE state
         IN  SetKey(kept, PREVIOUS_FILE_NAME, current_file_name)
    ELSE DeleteKeys(state, {PREVIOUS_FILE_NAME, RESULT_IMAGE, COUNT})

\* "Guardar en session_state": both keys are written, one after the other.
StoreResult(state, result_image, count) ==
    SetKey(SetKey(state, RESULT_IMAGE, result_image), COUNT, count)

\* The metric and the download button are rendered when both keys are there.
HasResult(state) == RESULT_IMAGE \in DOMAIN state /\ COUNT \in DOMAIN state

\* new_filename built from the whole name instead of its stem.
DownloadNameWithSuffix(uploaded_file, state) ==
    <<"r", "e", "s", "u", "l", "t", "a", "d", "o", "_">> \o uploaded_file.name
        \o <<"_", "(">> \o IntToStr(state[COUNT]) \o <<")", ".", "j", "p", "g">>

\* new_filename of the download button.
DownloadName(uploaded_file, state) ==
    <<"r", "e", "s", "u", "l", "t", "a", "d", "o", "_">> \o Stem(uploaded_file.name)
        \o <<"_", "(">> \o IntToStr(state[COUNT]) \o <<")", ".", "j", "p", "g">>

\* What a rerun that has not started yet has shown.
NoRun ==
    [session |-> 0, confidence |-> DEFAULT_CONFIDENCE, model |-> NoModel,
     stopped |-> FALSE, raised |-> FALSE, widgets |-> {}, detect_clicked |-> FALSE,
     calls |-> <<>>, metric |-> <<>>, file_name |-> <<>>, shown |-> <<>>,
     deleted |-> {}]

\* One run of main() in session s: state is the session's st.session_state,
\* model what load_model returned and load_error whether st.error was shown
\* in it; uploaded_file, confidence and click are the values of the uploader,
\* the slider and the Detect button in this rerun.  Returns the session state
\* at the end and what the rerun did (widgets rendered, detection calls,
\* metric, download name, picture shown, keys deleted).
main(s, state, model, load_error, uploaded_file, confidence, click) ==
    LET sidebar == {"slider"} \cup (IF load_error THEN {"error"} ELSE {})
        base == [NoRun EXCEPT !.session = s, !.confidence = confidence, !.model = model,
                              !.widgets = sidebar]
    IN
    IF Stops(model)
    THEN [state |-> state,
          run |-> [base EXCEPT !.stopped = TRUE, !.widgets = sidebar \cup {"warning"}]]
    ELSE
    LET checked == InvalidateOnFileChange(state, uploaded_file)
        deleted == DOMAIN state \ DOMAIN checked
    IN
    IF uploaded_file = NoFile
    THEN [state |-> checked,
          run |-> [base EXCEPT !.deleted = deleted,
                               !.widgets = sidebar \cup {"file_uploader", "info_upload"}]]
    ELSE
    LET detect_clicked == click
        upper == sidebar \cup {"file_uploader", "button"}
    IN
    IF detect_clicked /\ model = NoModel
    THEN \* None is not callable: the rerun ends with the exception
         [state |-> checked,
          run |-> [base EXCEPT !.deleted = deleted, !.detect_clicked = TRUE,
                               !.raised = TRUE, !.widgets = upper]]
    ELSE
    LET processed == process_image(uploaded_file.content, model, confidence)
        final == IF detect_clicked
                 THEN StoreResult(checked, processed.result_image, processed.count)
                 ELSE checked
        calls == IF detect_clicked THEN <<processed.call>> ELSE <<>>
        result == HasResult(final)
        lower == IF RESULT_IMAGE \in DOMAIN final THEN {"result_image"} ELSE {"info_detect"}
    IN  [state |-> final,
         run |-> [base EXCEPT
                    !.deleted = deleted,
                    !.detect_clicked = detect_clicked,
                    !.calls = calls,
                    !.metric = IF result THEN <<final[COUNT]>> ELSE <<>>,
                    !.file_name = IF result THEN DownloadName(uploaded_file, final) ELSE <<>>,
                    !.shown = IF RESULT_IMAGE \in DOMAIN final
                              THEN <<final[RESULT_IMAGE]>> ELSE <<>>,
                    !.widgets = upper \cup lower \cup {"original_image"}
                                \cup (IF result THEN {"metric", "download_button"} ELSE {})]]

\* ------------------------------------------------------------------ state
VARIABLES
    session_state,  \* session -> its st.session_state, a dictionary
    uploaded,       \* session -> the file in its uploader at its last rerun
    cache,          \* the entries of load_model's st.cache_resource cache
    ctor_calls,     \* how often the YOLO constructor ran in this process
    last            \* what the most recent rerun did, and in which session

vars == <<session_state, uploaded, cache, ctor_calls, last>>

Init ==
    /\ session_state = [s \in Sessions |-> EmptyDict]
    /\ uploaded = [s \in Sessions |-> NoFile]
    /\ cache = EmptyDict
    /\ ctor_calls = 0
    /\ last = NoRun

\* What the YOLO constructor may do if load_model runs it now; it runs only
\* when the cache has no entry for the path.
CtorOutcomes(entries, model_path) ==
    IF model_path \in DOMAIN entries THEN {"ok"} ELSE {"ok", "raise"}

\* A rerun of the script in session s, after any interaction of its user.
\* The uploader is part of the page only below the model check, so a stopped
\* rerun leaves the uploader as it was.
Rerun(s) ==
    \E uploaded_file \in Files \cup {NoFile}, confidence \in ConfidenceInputs,
       click \in BOOLEAN, ctor \in CtorOutcomes(cache, DEFAULT_MODEL_PATH) :
        \E loaded \in {load_model(cache, DEFAULT_MODEL_PATH, ctor, ctor_calls)} :
        \E out \in {main(s, session_state[s], loaded.value, loaded.error,
                         uploaded_file, confidence, click)} :
            /\ cache' = loaded.entries
            /\ ctor_calls' = loaded.calls
            /\ session_state' = [session_state EXCEPT ![s] = out.state]
            /\ uploaded' = [uploaded EXCEPT
                              ![s] = IF out.run.stopped THEN @ ELSE uploaded_file]
            /\ last' = out.run

Next == \E s \in Sessions : Rerun(s)

Spec == Init /\ [][Next]_vars

\* ----------------------------------------------------------- reading text
\* The number a run of decimal digits writes.
DigitValue(ch) == CHOOSE d \in 0..9 : Digit(d) = ch

RECURSIVE StrToInt(_)
StrToInt(digits) ==
    IF digits = <<>> THEN 0
    ELSE 10 * StrToInt(SubSeq(digits, 1, Len(digits) - 1)) + DigitValue(digits[Len(digits)])

\* The last position of character ch in text, 0 if there is none.
LastIndex(text, ch) ==
    LET at == {i \in 1..Len(text) : text[i] = ch}
    IN  IF at = {} THEN 0 ELSE CHOOSE i \in at : \A j \in at : j <= i

\* The number written after "TOTAL: " on a banner.
BannerNumber(banner) == StrToInt(SubSeq(banner, Len(TOTAL) + 1, Len(banner)))

\* The number written between the last parentheses of a download name.
EmbeddedCount(file_name) ==
    StrToInt(SubSeq(file_name, LastIndex(file_name, "(") + 1, LastIndex(file_name, ")") - 1))

ResultKeys == {RESULT_IMAGE, COUNT}
AllKeys == {PREVIOUS_FILE_NAME, RESULT_IMAGE, COUNT}

\* Session s made the most recent rerun, and the rerun ran past the stop.
RanThrough(s) == last.session = s /\ ~last.stopped

\* ------------------------------------------------------------------ claims
\* C1: at the end of a rerun in which the uploaded file differs from the file
\* of the session's previous rerun, and Detect is not clicked, neither
\* 'result_image' nor 'count' is in the session state.  A file is its name
\* and its picture.
C1_NewFileClearsResult ==
    [][\A s \in Sessions :
         ( /\ last'.session = s
           /\ ~last'.stopped
           /\ uploaded'[s] # NoFile
           /\ uploaded'[s] # uploaded[s]
           /\ ~last'.detect_clicked )
         => DOMAIN session_state'[s] \cap ResultKeys = {}]_vars

\* C2: at the end of every rerun in which no file is uploaded, none of
\* 'previous_file_name', 'result_image' and 'count' is in the session state.
C2_RemovedFileClearsAll ==
    \A s \in Sessions :
        uploaded[s] = NoFile => DOMAIN session_state[s] \cap AllKeys = {}

\* C2 witness: a rerun without file has just deleted all three keys.
C2_Witness ==
    \E s \in Sessions :
        RanThrough(s) /\ uploaded[s] = NoFile /\ last.deleted = AllKeys

\* C3: after a rerun in which Detect is clicked, exactly one detection call
\* was made, on the uploaded picture at the slider's confidence, and the
\* 'count' in the session state and the metric shown equal the number of
\* boxes that call returned.
C3_CountIsNumberOfBoxes ==
    \A s \in Sessions :
        (RanThrough(s) /\ last.detect_clicked) =>
            /\ Len(last.calls) = 1
            /\ last.calls[1].image = uploaded[s].content
            /\ last.calls[1].conf = last.confidence
            /\ last.calls[1].boxes =
                   Len(Predict(uploaded[s].content, last.confidence, MAX_DET))
            /\ COUNT \in DOMAIN session_state[s]
            /\ session_state[s][COUNT] = last.calls[1].boxes
            /\ last.metric = <<last.calls[1].boxes>>

\* C3 witness: Detect was clicked and the call returned ten boxes.
C3_Witness ==
    \E s \in Sessions :
        /\ RanThrough(s) /\ last.detect_clicked
        /\ last.calls # <<>> /\ last.calls[1].boxes = 10
        /\ session_state[s][COUNT] = 10

\* C4: whenever the download button is rendered, its file name is
\* 'resultado_<stem of the uploaded file's name>_(<count>).jpg' with the
\* 'count' of the session state, which the metric of the same rerun shows.
C4_DownloadNameEmbedsCount ==
    \A s \in Sessions :
        (RanThrough(s) /\ "download_button" \in last.widgets) =>
            /\ COUNT \in DOMAIN session_state[s]
            /\ last.file_name =
                   <<"r", "e", "s", "u", "l", "t", "a", "d", "o", "_">>
                   \o Stem(uploaded[s].name) \o <<"_", "(">>
                   \o IntToStr(session_state[s][COUNT]) \o <<")", ".", "j", "p", "g">>
            /\ EmbeddedCount(last.file_name) = session_state[s][COUNT]
            /\ last.metric = <<session_state[s][COUNT]>>

\* C4 witness: the button offers resultado_b.v2_(12).jpg.
C4_Witness ==
    /\ "download_button" \in last.widgets
    /\ last.file_name = <<"r", "e", "s", "u", "l", "t", "a", "d", "o", "_", "b", ".", "v",
                          "2", "_", "(", "1", "2", ")", ".", "j", "p", "g">>

\* C5: a rerun in which load_model returns None shows a message and stops:
\* the uploader, the Detect button and the download button are not rendered,
\* no detection call is made, and the session state is left as it was.
C5_NoModelStops ==
    [][\A s \in Sessions :
         (last'.session = s /\ last'.model = NoModel) =>
            /\ last'.stopped
            /\ "warning" \in last'.widgets
            /\ last'.widgets \cap {"file_uploader", "button", "download_button"} = {}
            /\ last'.calls = <<>>
            /\ session_state'[s] = session_state[s]
            /\ uploaded'[s] = uploaded[s]]_vars

\* C5 witness: a rerun stopped with the warning, the model being None.
C5_Witness ==
    /\ last.session # 0 /\ last.model = NoModel
    /\ last.stopped /\ "warning" \in last.widgets

\* After any rerun the constructor has run exactly once, and the rerun got the
\* cache's entry.
LoadedOnce ==
    /\ ctor_calls <= 1
    /\ last.session # 0 =>
          /\ DEFAULT_MODEL_PATH \in DOMAIN cache
          /\ last.model = cache[DEFAULT_MODEL_PATH]
          /\ ctor_calls = 1

\* A step leaves an entry of the cache, and the constructor, alone.
EntryKept ==
    (DEFAULT_MODEL_PATH \in DOMAIN cache) => (cache' = cache /\ ctor_calls' = ctor_calls)

\* C6: the constructor runs at most once in the process; once the cache has
\* the entry (a model or None) it never changes and the constructor never
\* runs again, and every rerun, in any session, gets that entry.
C6_ModelLoadedOnce == []LoadedOnce /\ [][EntryKept]_vars

\* C6 witness: the second session reruns with the model the first one loaded.
C6_Witness ==
    /\ last.session = 2 /\ last.model # NoModel
    /\ uploaded[1] # NoFile
    /\ ctor_calls = 1

\* C7: in every session 'result_image' is present exactly when 'count' is,
\* and when they are, 'previous_file_name' is present and is the name of the
\* file now uploaded.
C7_ResultInvalidatedTogether ==
    \A s \in Sessions :
        LET keys == DOMAIN session_state[s]
        IN  /\ RESULT_IMAGE \in keys <=> COUNT \in keys
            /\ keys \cap ResultKeys # {} =>
                  /\ PREVIOUS_FILE_NAME \in keys
                  /\ uploaded[s] # NoFile
                  /\ session_state[s][PREVIOUS_FILE_NAME] = uploaded[s].name

\* C7 witness: a file of another name was uploaded, and the rerun deleted
\* both result keys and kept the new name.
C7_Witness ==
    \E s \in Sessions :
        /\ RanThrough(s) /\ ~last.detect_clicked
        /\ last.deleted = ResultKeys
        /\ DOMAIN session_state[s] = {PREVIOUS_FILE_NAME}

\* C8: wherever a result is cached, the number on the banner of
\* 'result_image' is 'count'; the metric and the download name of the rerun
\* that shows the result carry the same number.
C8_BannerIsCount ==
    \A s \in Sessions :
        HasResult(session_state[s]) =>
            /\ BannerNumber(session_state[s][RESULT_IMAGE].banner) = session_state[s][COUNT]
            /\ session_state[s][RESULT_IMAGE].banner =
                   TOTAL \o IntToStr(session_state[s][COUNT])
            /\ session_state[s][RESULT_IMAGE].drawn = session_state[s][COUNT]
            /\ RanThrough(s) =>
                  /\ last.shown = <<session_state[s][RESULT_IMAGE]>>
                  /\ last.metric = <<BannerNumber(last.shown[1].banner)>>
                  /\ EmbeddedCount(last.file_name) = BannerNumber(last.shown[1].banner)

\* C8 witness: a cached result, shown without a new detection, "TOTAL: 10".
C8_Witness ==
    \E s \in Sessions :
        /\ RanThrough(s) /\ ~last.detect_clicked
        /\ HasResult(session_state[s])
        /\ session_state[s][RESULT_IMAGE].banner = TOTAL \o <<"1", "0">>

\* C9: a cached result was computed from the picture of the file that is
\* uploaded now.
C9_ResultBelongsToUploadedFile ==
    \A s \in Sessions :
        HasResult(session_state[s]) =>
            session_state[s][RESULT_IMAGE].source = uploaded[s].content

\* C10: a rerun in which the same file stays uploaded and Detect is not
\* clicked leaves the session state as it was and makes no detection call.
C10_IdleRerunKeepsResult ==
    [][\A s \in Sessions :
         ( /\ last'.session = s
           /\ ~last'.stopped
           /\ uploaded[s] # NoFile
           /\ uploaded'[s] = uploaded[s]
           /\ ~last'.detect_clicked )
         => /\ session_state'[s] = session_state[s]
            /\ last'.calls = <<>>
            /\ last'.deleted = {}]_vars

\* C10 witness: a result of the uploaded file is shown, kept from an earlier
\* Detect click, computed at a confidence that is not the slider's.
C10_Witness ==
    \E s \in Sessions :
        /\ RanThrough(s) /\ ~last.detect_clicked /\ last.deleted = {}
        /\ HasResult(session_state[s])
        /\ session_state[s][RESULT_IMAGE].source = uploaded[s].content
        /\ session_state[s][RESULT_IMAGE].conf # last.confidence
        /\ "metric" \in last.widgets

====
